---- MODULE Spec2Model ----
(***************************************************************************)
(* Model of the rustic access-control core (src/src/access_control.rs):    *)
(* the Ownable2Step ownership record, the admin Vec, the per-principal     *)
(* role bitflags and the role-admin matrix; and of the pause flag          *)
(* (src/src/pausable.rs, src/src/global_flags.rs) and of the reentrancy    *)
(* guard (src/src/reentrancy_guard.rs).                                    *)
(*                                                                         *)
(* A u32 bitflag is modelled as the set of the positions of its 1 bits     *)
(* (a subset of 0..31): `a | b` is union, `a & b` intersection, `!a` the    *)
(* complement in 0..31 and `1 << r` the singleton {r}.                     *)
(*                                                                         *)
(* A call that panics (assert!, expect) traps; on the IC a trap rolls the  *)
(* message's writes back, so a trapped call leaves the state unchanged.    *)
(***************************************************************************)
EXTENDS Integers, Sequences, FiniteSets, TLC

\* ------------------------------------------------------------------ bounds
\* Non-anonymous identities that call the canister.
NumUsers == 2
\* Longest role list passed to a batch operation.
MaxBatch == 2
\* Number of update calls explored after initialisation.
MaxCalls == 3
\* bound: how far an upgrade may raise the major, the minor and the stable
\* memory version (the patch version runs over all of u16)
MaxVersion == 1

\* ------------------------------------------------------------- identities
Anonymous == NumUsers + 1
Users == 1..NumUsers
Principals == {Anonymous} \cup Users
\* Option<Principal>::None; also the argument recorded for a call without one
None == -1
OptPrincipals == {None} \cup Principals

\* ------------------------------------------------------------------ roles
NumRoles == 32
RoleIdx == 0..(NumRoles - 1)
\* u8 role arguments tried by the callers: the lowest role, the highest
\* role, and the first index out of range.
RoleInputs == {0, NumRoles - 1, NumRoles}

RECURSIVE SeqsUpTo(_, _)
SeqsUpTo(S, n) ==
    IF n = 0 THEN {<<>>}
    ELSE LET shorter == SeqsUpTo(S, n - 1)
         IN  shorter \cup {Append(s, x) : s \in {t \in shorter : Len(t) = n - 1}, x \in S}
Batches == SeqsUpTo(RoleInputs, MaxBatch)

VARIABLES
    owner,           \* AccessControl.owner : Option<Principal>
    pending_owner,   \* AccessControl.pending_owner : Option<Principal>
    admins,          \* AccessControl.admins : Vec<Principal>
    admins_of_role,  \* AccessControl.admins_of_role : [u32; 32]
    access_roles,    \* ACCESS_ROLES : StableBTreeMap<StablePrincipal, u32>
    paused,          \* GlobalFlags.paused : bool
    reentrancy_guard_map,  \* REENTRANCY_GUARD_MAP : StableBTreeMap<StablePrincipal, ()>
    scopes,          \* per caller, the guarded functions awaiting a reply with a live guard
    lifecycle,       \* CANISTER_LIFECYCLE : the four u16 version fields
    last,            \* history: the most recent call, its arguments and outcome
    prev,            \* history: the persistent state that call started from
    renounced,       \* history: renounce_ownership has succeeded
    calls            \* number of update calls made so far

vars == <<owner, pending_owner, admins, admins_of_role, access_roles, paused,
          reentrancy_guard_map, scopes, lifecycle, last, prev, renounced, calls>>
state == <<owner, pending_owner, admins, admins_of_role, access_roles, paused>>
\* the reentrancy guard's state
gvars == <<reentrancy_guard_map, scopes>>

\* the persistent state as a record
Snapshot ==
    [owner |-> owner, pending_owner |-> pending_owner, admins |-> admins,
     admins_of_role |-> admins_of_role, access_roles |-> access_roles,
     paused |-> paused, reentrancy_guard_map |-> reentrancy_guard_map,
     scopes |-> scopes]

\* ---------------------------------------------------------------- helpers
\* Vec::contains
contains(v, x) == \E i \in DOMAIN v : v[i] = x
\* mutant: the closure of retain is inverted
retain_eq(v, x) == SelectSeq(v, LAMBDA y : y = x)

\* Vec::retain(|y| y != x)
retain_ne(v, x) == SelectSeq(v, LAMBDA y : y # x)
\* vec.iter() as a set
Elems(v) == {v[i] : i \in DOMAIN v}

Call(op, caller, arg, roles, result, msg, ret) ==
    [op |-> op, caller |-> caller, arg |-> arg, roles |-> roles,
     result |-> result, msg |-> msg, ret |-> ret]

\* A call completed normally / was rejected by its guard / trapped.
Returned(op, caller, arg, roles, ret) ==
    /\ last' = Call(op, caller, arg, roles, "Ok", "", ret)
    /\ prev' = Snapshot
    /\ renounced' = (renounced \/ op = "renounce_ownership")

Trapped(op, caller, arg, roles, msg) ==
    /\ last' = Call(op, caller, arg, roles, "Trap", msg, <<>>)
    /\ prev' = Snapshot
    /\ UNCHANGED <<state, renounced>>

\* #[modifiers("guard")]: the guard's Err is handed to the caller as a reject
\* and the function body does not run.
modifiers(guard, op, caller, arg, roles, body) ==
    IF guard = "Ok" THEN body
    ELSE /\ last' = Call(op, caller, arg, roles, "Reject", guard, <<>>)
         /\ prev' = Snapshot
         /\ UNCHANGED <<state, renounced>>

\* ------------------------------------------------------------------ guards
\* mutant: an absent owner lets every caller through
only_owner_or_vacant(caller) ==
    IF owner = caller \/ owner = None THEN "Ok" ELSE "Caller is not the owner"

\* mutant: the pending owner already counts as the owner
only_owner_or_pending(caller) ==
    IF owner = caller \/ pending_owner = caller THEN "Ok" ELSE "Caller is not the owner"

\* mutant: the guard tests the admin Vec instead of the owner
only_owner_or_admin(caller) ==
    IF owner = caller \/ contains(admins, caller) THEN "Ok" ELSE "Caller is not the owner"

only_owner(caller) ==
    IF owner = caller THEN "Ok" ELSE "Caller is not the owner"

\* mutant: the owner passes the admin guard
only_admin_or_owner(caller) ==
    IF contains(admins, caller) \/ owner = caller THEN "Ok" ELSE "Caller is not an admin"

only_admin(caller) ==
    IF contains(admins, caller) THEN "Ok" ELSE "Caller is not an admin"

\* ----------------------------------------------------------------- queries
is_owner(p) == owner = p
is_admin(p) == contains(admins, p)

\* -------------------------------------------------------------------- Init
\* mutant: the admin Vec is not seeded with the owner
access_init_no_admin(o) ==
    /\ owner = o
    /\ pending_owner = None
    /\ admins = <<>>
    /\ admins_of_role = [r \in RoleIdx |-> {}]
    /\ access_roles = <<>>

\* The GLOBAL_FLAGS cell is created with paused: false.
global_flags_init == paused = FALSE

\* access_init(owner), as called by rustic_init with the installing caller.
access_init(o) ==
    /\ owner = o
    /\ pending_owner = None
    /\ admins = <<o>>
    /\ admins_of_role = [r \in RoleIdx |-> {}]
    /\ access_roles = <<>>

\* REENTRANCY_GUARD_MAP is initialised lazily on an empty memory; no guarded
\* function is in progress.
reentrancy_guard_init ==
    /\ reentrancy_guard_map = <<>>
    /\ scopes = [c \in Principals |-> <<>>]

\* The CANISTER_LIFECYCLE cell is created with version 0.0.0 and stable
\* memory version 0.
canister_lifecycle_init ==
    lifecycle = [stable_memory_version |-> 0, version_major |-> 0,
                 version_minor |-> 0, version_patch |-> 0]

\* The state after rustic_init, run for the installing caller o.
Installed(o) ==
    /\ global_flags_init
    /\ access_init(o)
    /\ reentrancy_guard_init
    /\ canister_lifecycle_init
    /\ last = Call("access_init", o, o, <<>>, "Ok", "", <<>>)
    /\ prev = Snapshot
    /\ renounced = FALSE
    /\ calls = 0

Init == \E o \in Principals : Installed(o)

\* --------------------------------------------------------------- ownership
\* mutant: the first step of the transfer already moves the ownership
transfer_ownership_sets_owner(caller, new_owner) ==
    modifiers(only_owner(caller), "transfer_ownership", caller, new_owner, <<>>,
        IF new_owner = Anonymous
        THEN Trapped("transfer_ownership", caller, new_owner, <<>>,
                     "Cannot transfer ownership to the anonymous principal")
        ELSE /\ pending_owner' = new_owner
             /\ owner' = new_owner
             /\ UNCHANGED <<admins, admins_of_role, access_roles, paused>>
             /\ Returned("transfer_ownership", caller, new_owner, <<>>, <<>>))

\* mutant: the new owner is not compared with the anonymous principal
transfer_ownership_to_anyone(caller, new_owner) ==
    modifiers(only_owner(caller), "transfer_ownership", caller, new_owner, <<>>,
        /\ pending_owner' = new_owner
        /\ UNCHANGED <<owner, admins, admins_of_role, access_roles, paused>>
        /\ Returned("transfer_ownership", caller, new_owner, <<>>, <<>>))

transfer_ownership(caller, new_owner) ==
    modifiers(only_owner(caller), "transfer_ownership", caller, new_owner, <<>>,
        IF new_owner = Anonymous
        THEN Trapped("transfer_ownership", caller, new_owner, <<>>,
                     "Cannot transfer ownership to the anonymous principal")
        ELSE /\ pending_owner' = new_owner
             /\ UNCHANGED <<owner, admins, admins_of_role, access_roles, paused>>
             /\ Returned("transfer_ownership", caller, new_owner, <<>>, <<>>))

\* mutant: the pending transfer survives the immediate one
transfer_ownership_immediate_keeps_pending(caller, new_owner) ==
    modifiers(only_owner(caller), "transfer_ownership_immediate", caller, new_owner, <<>>,
        IF new_owner = Anonymous
        THEN Trapped("transfer_ownership_immediate", caller, new_owner, <<>>,
                     "Cannot transfer ownership to the anonymous principal")
        ELSE /\ owner' = new_owner
             /\ UNCHANGED <<pending_owner, admins, admins_of_role, access_roles, paused>>
             /\ Returned("transfer_ownership_immediate", caller, new_owner, <<>>, <<>>))

transfer_ownership_immediate(caller, new_owner) ==
    modifiers(only_owner(caller), "transfer_ownership_immediate", caller, new_owner, <<>>,
        IF new_owner = Anonymous
        THEN Trapped("transfer_ownership_immediate", caller, new_owner, <<>>,
                     "Cannot transfer ownership to the anonymous principal")
        ELSE /\ pending_owner' = None
             /\ owner' = new_owner
             /\ UNCHANGED <<admins, admins_of_role, access_roles, paused>>
             /\ Returned("transfer_ownership_immediate", caller, new_owner, <<>>, <<>>))

\* mutant: renouncing leaves the pending transfer in place
renounce_ownership_keeps_pending(caller) ==
    modifiers(only_owner(caller), "renounce_ownership", caller, None, <<>>,
        /\ owner' = None
        /\ UNCHANGED <<pending_owner, admins, admins_of_role, access_roles, paused>>
        /\ Returned("renounce_ownership", caller, None, <<>>, <<>>))

renounce_ownership(caller) ==
    modifiers(only_owner(caller), "renounce_ownership", caller, None, <<>>,
        /\ owner' = None
        /\ pending_owner' = None
        /\ UNCHANGED <<admins, admins_of_role, access_roles, paused>>
        /\ Returned("renounce_ownership", caller, None, <<>>, <<>>))

\* mutant: the caller is not compared with the pending owner
accept_ownership_any_caller(caller) ==
    IF pending_owner = None
    THEN Trapped("accept_ownership", caller, None, <<>>, "No pending owner")
    ELSE /\ owner' = pending_owner
         /\ pending_owner' = None
         /\ UNCHANGED <<admins, admins_of_role, access_roles, paused>>
         /\ Returned("accept_ownership", caller, None, <<>>, <<>>)

\* mutant: the admin Vec follows the ownership
accept_ownership_moves_admin(caller) ==
    IF pending_owner = None
    THEN Trapped("accept_ownership", caller, None, <<>>, "No pending owner")
    ELSE IF pending_owner # caller
    THEN Trapped("accept_ownership", caller, None, <<>>,
                 "Only pending owner can accept ownership")
    ELSE /\ owner' = pending_owner
         /\ pending_owner' = None
         /\ admins' = Append(retain_ne(retain_ne(admins, owner), pending_owner),
                             pending_owner)
         /\ UNCHANGED <<admins_of_role, access_roles, paused>>
         /\ Returned("accept_ownership", caller, None, <<>>, <<>>)

accept_ownership(caller) ==
    IF pending_owner = None
    THEN Trapped("accept_ownership", caller, None, <<>>, "No pending owner")
    ELSE IF pending_owner # caller
    THEN Trapped("accept_ownership", caller, None, <<>>,
                 "Only pending owner can accept ownership")
    ELSE /\ owner' = pending_owner
         /\ pending_owner' = None
         /\ UNCHANGED <<admins, admins_of_role, access_roles, paused>>
         /\ Returned("accept_ownership", caller, None, <<>>, <<>>)

\* ------------------------------------------------------------------ admins
\* mutant: the new admin is pushed without the membership test
grant_admin_always_push(caller, new_admin) ==
    modifiers(only_owner(caller), "grant_admin", caller, new_admin, <<>>,
        IF new_admin = Anonymous
        THEN Trapped("grant_admin", caller, new_admin, <<>>,
                     "Cannot grant admin to the anonymous principal")
        ELSE /\ admins' = Append(admins, new_admin)
             /\ UNCHANGED <<owner, pending_owner, admins_of_role, access_roles, paused>>
             /\ Returned("grant_admin", caller, new_admin, <<>>, <<>>))

\* mutant: the new admin is not compared with the anonymous principal
grant_admin_to_anyone(caller, new_admin) ==
    modifiers(only_owner(caller), "grant_admin", caller, new_admin, <<>>,
        /\ admins' = IF ~contains(admins, new_admin)
                     THEN Append(admins, new_admin)
                     ELSE admins
        /\ UNCHANGED <<owner, pending_owner, admins_of_role, access_roles, paused>>
        /\ Returned("grant_admin", caller, new_admin, <<>>, <<>>))

\* mutant: admins may grant admin
grant_admin_by_admin(caller, new_admin) ==
    modifiers(only_admin(caller), "grant_admin", caller, new_admin, <<>>,
        IF new_admin = Anonymous
        THEN Trapped("grant_admin", caller, new_admin, <<>>,
                     "Cannot grant admin to the anonymous principal")
        ELSE /\ admins' = IF ~contains(admins, new_admin)
                          THEN Append(admins, new_admin)
                          ELSE admins
             /\ UNCHANGED <<owner, pending_owner, admins_of_role, access_roles, paused>>
             /\ Returned("grant_admin", caller, new_admin, <<>>, <<>>))

grant_admin(caller, new_admin) ==
    modifiers(only_owner(caller), "grant_admin", caller, new_admin, <<>>,
        IF new_admin = Anonymous
        THEN Trapped("grant_admin", caller, new_admin, <<>>,
                     "Cannot grant admin to the anonymous principal")
        ELSE /\ admins' = IF ~contains(admins, new_admin)
                          THEN Append(admins, new_admin)
                          ELSE admins
             /\ UNCHANGED <<owner, pending_owner, admins_of_role, access_roles, paused>>
             /\ Returned("grant_admin", caller, new_admin, <<>>, <<>>))

revoke_admin(caller, admin) ==
    modifiers(only_owner(caller), "revoke_admin", caller, admin, <<>>,
        /\ admins' = retain_ne(admins, admin)
        /\ UNCHANGED <<owner, pending_owner, admins_of_role, access_roles, paused>>
        /\ Returned("revoke_admin", caller, admin, <<>>, <<>>))

\* mutant: the whole admin Vec is cleared
renounce_admin_clears(caller) ==
    modifiers(only_admin(caller), "renounce_admin", caller, None, <<>>,
        /\ admins' = <<>>
        /\ UNCHANGED <<owner, pending_owner, admins_of_role, access_roles, paused>>
        /\ Returned("renounce_admin", caller, None, <<>>, <<>>))

renounce_admin(caller) ==
    modifiers(only_admin(caller), "renounce_admin", caller, None, <<>>,
        /\ admins' = retain_ne(admins, caller)
        /\ UNCHANGED <<owner, pending_owner, admins_of_role, access_roles, paused>>
        /\ Returned("renounce_admin", caller, None, <<>>, <<>>))

\* ------------------------------------------------------------------- roles
\* `1 << role` on a u32, for a shift amount below the width
Bit(role) == {role}

\* BTreeMap::get(..).unwrap_or(0)
get_or_0(map, p) == IF p \in DOMAIN map THEN map[p] ELSE {}

\* BTreeMap::insert
insert(map, p, v) == [q \in DOMAIN map \cup {p} |-> IF q = p THEN v ELSE map[q]]

\* admins_of_role[role] & role_flag != 0; only called with role <= 31
is_role_admin(role_flag, role) ==
    (admins_of_role[role] \cap role_flag) # {}

\* the condition of the `if` in the loops of grant_roles and revoke_roles
role_allowed(caller, caller_roles, role) ==
    role <= 31 /\ (is_admin(caller) \/ is_role_admin(caller_roles, role))

\* mutant: the bit is set also for an entry that is refused
RECURSIVE grant_loop_sets_refused(_, _, _, _, _, _)
grant_loop_sets_refused(roles, i, principal_roles, success, caller, caller_roles) ==
    IF i > Len(roles) THEN <<principal_roles, success>>
    ELSE grant_loop_sets_refused(roles, i + 1,
             principal_roles \cup Bit(roles[i] % NumRoles),
             Append(success, role_allowed(caller, caller_roles, roles[i])),
             caller, caller_roles)

\* `for role in roles { .. }` of grant_roles: the pair of the target's mask and
\* the success vector after the entries i..Len(roles)
RECURSIVE grant_loop(_, _, _, _, _, _)
grant_loop(roles, i, principal_roles, success, caller, caller_roles) ==
    IF i > Len(roles) THEN <<principal_roles, success>>
    ELSE IF role_allowed(caller, caller_roles, roles[i])
         THEN grant_loop(roles, i + 1, principal_roles \cup Bit(roles[i]),
                         Append(success, TRUE), caller, caller_roles)
         ELSE grant_loop(roles, i + 1, principal_roles,
                         Append(success, FALSE), caller, caller_roles)

\* mutant: the loop of revoke_roles sets the bits instead of clearing them
revoke_loop_sets(roles, i, principal_roles, success, caller, caller_roles) ==
    grant_loop(roles, i, principal_roles, success, caller, caller_roles)

\* `for role in roles { .. }` of revoke_roles
RECURSIVE revoke_loop(_, _, _, _, _, _)
revoke_loop(roles, i, principal_roles, success, caller, caller_roles) ==
    IF i > Len(roles) THEN <<principal_roles, success>>
    ELSE IF role_allowed(caller, caller_roles, roles[i])
         THEN revoke_loop(roles, i + 1, principal_roles \ Bit(roles[i]),
                          Append(success, TRUE), caller, caller_roles)
         ELSE revoke_loop(roles, i + 1, principal_roles,
                          Append(success, FALSE), caller, caller_roles)

\* mutant: a caller that grants to itself is authorised by the mask as the
\* batch has changed it so far
RECURSIVE grant_loop_live(_, _, _, _, _)
grant_loop_live(roles, i, principal_roles, success, caller) ==
    IF i > Len(roles) THEN <<principal_roles, success>>
    ELSE IF role_allowed(caller, principal_roles, roles[i])
         THEN grant_loop_live(roles, i + 1, principal_roles \cup Bit(roles[i]),
                              Append(success, TRUE), caller)
         ELSE grant_loop_live(roles, i + 1, principal_roles,
                              Append(success, FALSE), caller)

grant_roles_live_mask(caller, roles, principal) ==
    LET principal_roles == get_or_0(access_roles, principal)
        caller_roles == get_or_0(access_roles, caller)
        out == IF caller = principal
               THEN grant_loop_live(roles, 1, principal_roles, <<>>, caller)
               ELSE grant_loop(roles, 1, principal_roles, <<>>, caller, caller_roles)
    IN  /\ access_roles' = insert(access_roles, principal, out[1])
        /\ UNCHANGED <<owner, pending_owner, admins, admins_of_role, paused>>
        /\ Returned("grant_roles", caller, principal, roles, out[2])

\* mutant: the target's mask was read before the previous call committed
grant_roles_stale_read(caller, roles, principal) ==
    LET principal_roles == get_or_0(prev.access_roles, principal)
        caller_roles == get_or_0(access_roles, caller)
        out == grant_loop(roles, 1, principal_roles, <<>>, caller, caller_roles)
    IN  /\ access_roles' = insert(access_roles, principal, out[1])
        /\ UNCHANGED <<owner, pending_owner, admins, admins_of_role, paused>>
        /\ Returned("grant_roles", caller, principal, roles, out[2])

grant_roles(caller, roles, principal) ==
    LET principal_roles == get_or_0(access_roles, principal)
        caller_roles == get_or_0(access_roles, caller)
        out == grant_loop(roles, 1, principal_roles, <<>>, caller, caller_roles)
    IN  /\ access_roles' = insert(access_roles, principal, out[1])
        /\ UNCHANGED <<owner, pending_owner, admins, admins_of_role, paused>>
        /\ Returned("grant_roles", caller, principal, roles, out[2])

\* StableBTreeMap::insert returns the value previously stored under the key,
\* as an Option; revoke_roles calls expect("Role update failed") on it.
revoke_roles(caller, roles, principal) ==
    LET principal_roles == get_or_0(access_roles, principal)
        caller_roles == get_or_0(access_roles, caller)
        out == revoke_loop(roles, 1, principal_roles, <<>>, caller, caller_roles)
    IN  IF principal \notin DOMAIN access_roles
        THEN Trapped("revoke_roles", caller, principal, roles, "Role update failed")
        ELSE /\ access_roles' = insert(access_roles, principal, out[1])
             /\ UNCHANGED <<owner, pending_owner, admins, admins_of_role, paused>>
             /\ Returned("revoke_roles", caller, principal, roles, out[2])

get_user_roles(p) == get_or_0(access_roles, p)

\* `1 << role` with role >= 32 overflows the shift: a build with overflow
\* checks panics there, any other build shifts by role modulo the width.
shl_overflow(role) == role >= NumRoles

\* principal_roles & (1 << role) != 0: the value user_has_role returns when
\* it returns (see shl_overflow for the calls that can panic instead)
user_has_role(role, principal) ==
    (Bit(role % NumRoles) \cap get_or_0(access_roles, principal)) # {}

\* has_role(role) for the current caller: Ok(()) or Err("Unauthorized")
has_role(caller, role) ==
    IF user_has_role(role, caller) THEN "Ok" ELSE "Unauthorized"

\* roles.iter().all(|role| principal_roles & (1 << role) != 0), the value in
\* a build without overflow checks
user_has_roles_all(roles, principal) ==
    \A i \in DOMAIN roles : user_has_role(roles[i], principal)

\* roles.iter().any(|role| principal_roles & (1 << role) != 0), the value in
\* a build without overflow checks
user_has_roles_any(roles, principal) ==
    \E i \in DOMAIN roles : user_has_role(roles[i], principal)

\* Iterator::all stops at the first false: it evaluates an overflowing shift
\* when every element before it gave true
all_overflows(roles, principal) ==
    \E i \in DOMAIN roles :
        /\ shl_overflow(roles[i])
        /\ \A j \in 1..(i - 1) : user_has_role(roles[j], principal)

\* Iterator::any stops at the first true: it evaluates an overflowing shift
\* when every element before it gave false
any_overflows(roles, principal) ==
    \E i \in DOMAIN roles :
        /\ shl_overflow(roles[i])
        /\ \A j \in 1..(i - 1) : ~user_has_role(roles[j], principal)

has_roles_all(caller, roles) ==
    IF user_has_roles_all(roles, caller) THEN "Ok" ELSE "Unauthorized"

has_roles_any(caller, roles) ==
    IF user_has_roles_any(roles, caller) THEN "Ok" ELSE "Unauthorized"

\* A call of one of the read predicates: it returns `ret`, or panics in the
\* shift when `overflow` and the build checks overflows; nothing is written.
read_predicate(op, caller, arg, roles, overflow, ret) ==
    /\ \/ /\ overflow
          /\ Trapped(op, caller, arg, roles, "attempt to shift left with overflow")
       \/ /\ Returned(op, caller, arg, roles, <<ret>>)
          /\ UNCHANGED state

\* `1 << x` on a u32 with a u8 shift amount: for x >= 32 the shift overflows,
\* which panics in a build with overflow checks and otherwise shifts by
\* x modulo the width.
shl_overflows(xs) == \E i \in DOMAIN xs : xs[i] >= NumRoles

\* admins.iter().fold(0, |acc, x| acc | (1 << x)) in a build without
\* overflow checks
RECURSIVE fold_bits(_, _, _)
fold_bits(xs, i, acc) ==
    IF i > Len(xs) THEN acc
    ELSE fold_bits(xs, i + 1, acc \cup Bit(xs[i] % NumRoles))

\* admins_of_role.get_mut(role as usize) with `*x |= flags`
matrix_or(role, flags) ==
    IF role \in RoleIdx
    THEN [admins_of_role EXCEPT ![role] = @ \cup flags]
    ELSE admins_of_role

\* mutant: the row is cleared whatever the flags are
matrix_clear(role, flags) ==
    IF role \in RoleIdx
    THEN [admins_of_role EXCEPT ![role] = {}]
    ELSE admins_of_role

\* admins_of_role.get_mut(role as usize) with `*x &= !flags`
matrix_and_not(role, flags) ==
    IF role \in RoleIdx
    THEN [admins_of_role EXCEPT ![role] = @ \cap (RoleIdx \ flags)]
    ELSE admins_of_role

set_role_admins(caller, role, role_admins) ==
    modifiers(only_admin(caller), "set_role_admins", caller, role, role_admins,
        \/ /\ shl_overflows(role_admins)
           /\ Trapped("set_role_admins", caller, role, role_admins,
                      "attempt to shift left with overflow")
        \/ /\ admins_of_role' = matrix_or(role, fold_bits(role_admins, 1, {}))
           /\ UNCHANGED <<owner, pending_owner, admins, access_roles, paused>>
           /\ Returned("set_role_admins", caller, role, role_admins, <<>>))

revoke_role_admins(caller, role, role_admins) ==
    modifiers(only_admin(caller), "revoke_role_admins", caller, role, role_admins,
        \/ /\ shl_overflows(role_admins)
           /\ Trapped("revoke_role_admins", caller, role, role_admins,
                      "attempt to shift left with overflow")
        \/ /\ admins_of_role' = matrix_and_not(role, fold_bits(role_admins, 1, {}))
           /\ UNCHANGED <<owner, pending_owner, admins, access_roles, paused>>
           /\ Returned("revoke_role_admins", caller, role, role_admins, <<>>))

\* ------------------------------------------------------------------- pause
is_paused == paused

when_not_paused == IF paused THEN "Contract is paused" ELSE "Ok"

\* mutant: the guard passes while the canister is not paused
when_paused_inverted == IF paused THEN "Contract is not paused" ELSE "Ok"

when_paused == IF paused THEN "Ok" ELSE "Contract is not paused"

\* mutant: pause flips the flag instead of setting it
pause_toggles(caller) ==
    modifiers(only_admin(caller), "pause", caller, None, <<>>,
        /\ paused' = ~paused
        /\ UNCHANGED <<owner, pending_owner, admins, admins_of_role, access_roles>>
        /\ Returned("pause", caller, None, <<>>, <<>>))

pause(caller) ==
    modifiers(only_admin(caller), "pause", caller, None, <<>>,
        /\ paused' = TRUE
        /\ UNCHANGED <<owner, pending_owner, admins, admins_of_role, access_roles>>
        /\ Returned("pause", caller, None, <<>>, <<>>))

\* mutant: resume is open to every caller
resume_any_caller(caller) ==
    /\ paused' = FALSE
    /\ UNCHANGED <<owner, pending_owner, admins, admins_of_role, access_roles>>
    /\ Returned("resume", caller, None, <<>>, <<>>)

resume(caller) ==
    modifiers(only_admin(caller), "resume", caller, None, <<>>,
        /\ paused' = FALSE
        /\ UNCHANGED <<owner, pending_owner, admins, admins_of_role, access_roles>>
        /\ Returned("resume", caller, None, <<>>, <<>>))

\* -------------------------------------------------------- reentrancy guard
\* Public update functions that declare `let _guard = ReentrancyGuard::new();`
\* at their beginning.
GuardedFuncs == {"some_func", "other_func"}

\* What a guarded function does in one message after it has the guard: it
\* returns (normally or with an error), it traps, it awaits a remote call, or
\* it calls a guarded function itself.
Paths == {"return", "trap", "await", "reenter"}

\* the value of type ()
unit == <<>>

\* StableBTreeMap::contains_key
contains_key(map, k) == k \in DOMAIN map

\* mutant: remove leaves the key in the map
remove_nothing(map, k) == map

\* StableBTreeMap::remove
remove(map, k) == [q \in DOMAIN map \ {k} |-> map[q]]

\* mutant: a ticket is never found
reentrant_never(map, caller, func) == FALSE

\* mutant: the ticket only blocks the function that took it
reentrant_same_func(map, caller, func) ==
    contains_key(map, caller) /\ func \in Elems(scopes[caller])

\* mutant: a ticket of any caller blocks every caller
reentrant_any(map, caller, func) == DOMAIN map # {}

\* the test of ReentrancyGuard::new: the map holds a ticket for the caller,
\* whatever the guarded function is
reentrant(map, caller, func) == contains_key(map, caller)

\* ReentrancyGuard::new past the test: the ticket is inserted
ReentrancyGuard_new(map, caller) == insert(map, caller, unit)

\* Drop for ReentrancyGuard
drop(map, caller) == remove(map, caller)

GuardCall(op, caller, func, path, result, msg) ==
    [op |-> op, caller |-> caller, arg |-> None, roles |-> <<>>,
     result |-> result, msg |-> msg, ret |-> <<>>, func |-> func, path |-> path]

GuardStep(op, caller, func, path, result, msg) ==
    /\ last' = GuardCall(op, caller, func, path, result, msg)
    /\ prev' = Snapshot
    /\ UNCHANGED <<state, renounced>>

\* A message in which `caller` calls the guarded function `func`, up to the
\* end of the message. A trap rolls the message's writes back, the ticket
\* included.
guarded_call(caller, func, path) ==
    IF reentrant(reentrancy_guard_map, caller, func)
    THEN /\ UNCHANGED gvars
         /\ GuardStep("guarded_call", caller, func, path, "Trap",
                      "ReentrancyGuard: reentrant call")
    ELSE LET acquired == ReentrancyGuard_new(reentrancy_guard_map, caller)
         IN  CASE path = "return" ->
                    /\ reentrancy_guard_map' = drop(acquired, caller)
                    /\ UNCHANGED scopes
                    /\ GuardStep("guarded_call", caller, func, path, "Ok", "")
               [] path = "await" ->
                    /\ reentrancy_guard_map' = acquired
                    /\ scopes' = [scopes EXCEPT ![caller] = Append(@, func)]
                    /\ GuardStep("guarded_call", caller, func, path, "Await", "")
               [] path = "trap" ->
                    /\ UNCHANGED gvars
                    /\ GuardStep("guarded_call", caller, func, path, "Trap",
                                 "trap in the guarded function")
               [] path = "reenter" ->
                    IF \E f \in GuardedFuncs : reentrant(acquired, caller, f)
                    THEN /\ UNCHANGED gvars
                         /\ GuardStep("guarded_call", caller, func, path, "Trap",
                                      "ReentrancyGuard: reentrant call")
                    ELSE /\ reentrancy_guard_map' = drop(drop(acquired, caller), caller)
                         /\ UNCHANGED scopes
                         /\ GuardStep("guarded_call", caller, func, path, "Ok", "")

\* mutant: a trap in the callback leaves the ticket behind
guarded_callback_leaks(caller, path) ==
    /\ scopes[caller] # <<>>
    /\ LET func == Head(scopes[caller])
       IN  CASE path = "return" ->
                  /\ reentrancy_guard_map' = drop(reentrancy_guard_map, caller)
                  /\ scopes' = [scopes EXCEPT ![caller] = Tail(@)]
                  /\ GuardStep("guarded_callback", caller, func, path, "Ok", "")
             [] path = "await" ->
                  /\ UNCHANGED gvars
                  /\ GuardStep("guarded_callback", caller, func, path, "Await", "")
             [] OTHER ->
                  /\ UNCHANGED reentrancy_guard_map
                  /\ scopes' = [scopes EXCEPT ![caller] = Tail(@)]
                  /\ GuardStep("guarded_callback", caller, func, path, "Trap",
                               "trap in the guarded function")

\* The message that resumes a guarded function of `caller` after its remote
\* call. The guard is a local of the suspended future: it is dropped when the
\* function returns, and when the callback traps, where the writes of the
\* callback are rolled back and the future is dropped in the cleanup.
guarded_callback(caller, path) ==
    /\ scopes[caller] # <<>>
    /\ LET func == Head(scopes[caller])
       IN  CASE path = "return" ->
                  /\ reentrancy_guard_map' = drop(reentrancy_guard_map, caller)
                  /\ scopes' = [scopes EXCEPT ![caller] = Tail(@)]
                  /\ GuardStep("guarded_callback", caller, func, path, "Ok", "")
             [] path = "await" ->
                  /\ UNCHANGED gvars
                  /\ GuardStep("guarded_callback", caller, func, path, "Await", "")
             [] path = "trap" ->
                  /\ reentrancy_guard_map' = drop(reentrancy_guard_map, caller)
                  /\ scopes' = [scopes EXCEPT ![caller] = Tail(@)]
                  /\ GuardStep("guarded_callback", caller, func, path, "Trap",
                               "trap in the guarded function")
             [] path = "reenter" ->
                  IF \E f \in GuardedFuncs : reentrant(reentrancy_guard_map, caller, f)
                  THEN /\ reentrancy_guard_map' = drop(reentrancy_guard_map, caller)
                       /\ scopes' = [scopes EXCEPT ![caller] = Tail(@)]
                       /\ GuardStep("guarded_callback", caller, func, path, "Trap",
                                    "ReentrancyGuard: reentrant call")
                  ELSE /\ reentrancy_guard_map' =
                              drop(drop(ReentrancyGuard_new(reentrancy_guard_map, caller),
                                        caller), caller)
                       /\ scopes' = [scopes EXCEPT ![caller] = Tail(@)]
                       /\ GuardStep("guarded_callback", caller, func, path, "Ok", "")

\* -------------------------------------------------------------------- Next
\* One update call of each entry point, for every caller and argument.
TransferOwnership ==
    \E c \in Principals, n \in OptPrincipals : transfer_ownership(c, n)
TransferOwnershipImmediate ==
    \E c \in Principals, n \in OptPrincipals : transfer_ownership_immediate(c, n)
RenounceOwnership == \E c \in Principals : renounce_ownership(c)
AcceptOwnership == \E c \in Principals : accept_ownership(c)
GrantAdmin == \E c \in Principals, a \in Principals : grant_admin(c, a)
RevokeAdmin == \E c \in Principals, a \in Principals : revoke_admin(c, a)
RenounceAdmin == \E c \in Principals : renounce_admin(c)
GrantRoles ==
    \E c \in Principals, rs \in Batches, p \in Principals : grant_roles(c, rs, p)
RevokeRoles ==
    \E c \in Principals, rs \in Batches, p \in Principals : revoke_roles(c, rs, p)
SetRoleAdmins ==
    \E c \in Principals, r \in RoleInputs, rs \in Batches : set_role_admins(c, r, rs)
RevokeRoleAdmins ==
    \E c \in Principals, r \in RoleInputs, rs \in Batches : revoke_role_admins(c, r, rs)
Pause == \E c \in Principals : pause(c)
Resume == \E c \in Principals : resume(c)
GuardedCall ==
    \E c \in Principals, f \in GuardedFuncs, p \in Paths : guarded_call(c, f, p)
GuardedCallback == \E c \in Principals, p \in Paths : guarded_callback(c, p)

\* the call is within the number of calls explored
Tick == calls < MaxCalls /\ calls' = calls + 1

Next ==
    \/ Tick /\ TransferOwnership /\ UNCHANGED <<gvars, lifecycle>>
    \/ Tick /\ TransferOwnershipImmediate /\ UNCHANGED <<gvars, lifecycle>>
    \/ Tick /\ RenounceOwnership /\ UNCHANGED <<gvars, lifecycle>>
    \/ Tick /\ AcceptOwnership /\ UNCHANGED <<gvars, lifecycle>>
    \/ Tick /\ GrantAdmin /\ UNCHANGED <<gvars, lifecycle>>
    \/ Tick /\ RevokeAdmin /\ UNCHANGED <<gvars, lifecycle>>
    \/ Tick /\ RenounceAdmin /\ UNCHANGED <<gvars, lifecycle>>
    \/ Tick /\ GrantRoles /\ UNCHANGED <<gvars, lifecycle>>
    \/ Tick /\ RevokeRoles /\ UNCHANGED <<gvars, lifecycle>>
    \/ Tick /\ SetRoleAdmins /\ UNCHANGED <<gvars, lifecycle>>
    \/ Tick /\ RevokeRoleAdmins /\ UNCHANGED <<gvars, lifecycle>>
    \/ Tick /\ Pause /\ UNCHANGED <<gvars, lifecycle>>
    \/ Tick /\ Resume /\ UNCHANGED <<gvars, lifecycle>>
    \/ Tick /\ GuardedCall /\ UNCHANGED lifecycle
    \/ Tick /\ GuardedCallback /\ UNCHANGED lifecycle

\* The whole interface (access control, pause, guarded functions), for a
\* canister installed by a user
\* (the code treats no identity but the anonymous one specially, so one
\* installing user stands for all of them).
InitByUser == Installed(CHOOSE u \in Users : TRUE)

Spec == InitByUser /\ [][Next]_vars

\* The ownership record, the admin Vec and the pause flag on their own, for
\* every installing caller and without a limit on the number of calls: their
\* operations read and write nothing else, so all their reachable states are
\* explored.
NextAccess ==
    \/ TransferOwnership /\ UNCHANGED <<calls, gvars, lifecycle>>
    \/ TransferOwnershipImmediate /\ UNCHANGED <<calls, gvars, lifecycle>>
    \/ RenounceOwnership /\ UNCHANGED <<calls, gvars, lifecycle>>
    \/ AcceptOwnership /\ UNCHANGED <<calls, gvars, lifecycle>>
    \/ GrantAdmin /\ UNCHANGED <<calls, gvars, lifecycle>>
    \/ RevokeAdmin /\ UNCHANGED <<calls, gvars, lifecycle>>
    \/ RenounceAdmin /\ UNCHANGED <<calls, gvars, lifecycle>>
    \/ Pause /\ UNCHANGED <<calls, gvars, lifecycle>>
    \/ Resume /\ UNCHANGED <<calls, gvars, lifecycle>>

SpecAccess == Init /\ [][NextAccess]_vars

\* The same for a canister installed by a user, that is, by a caller other
\* than the anonymous principal.
SpecAccessByUser == InitByUser /\ [][NextAccess]_vars

\* The reentrancy guard on its own, for every interleaving of the messages of
\* all callers and without a limit on the number of calls.
NextGuard ==
    \/ GuardedCall /\ UNCHANGED <<calls, lifecycle>>
    \/ GuardedCallback /\ UNCHANGED <<calls, lifecycle>>

SpecGuard == Init /\ [][NextGuard]_vars

\* The read predicates over the role masks. user_* are queries about a
\* principal named in the argument, has_* are the guards of the same name
\* evaluated for the caller.
UserHasRole ==
    \E r \in RoleInputs, p \in Principals :
        read_predicate("user_has_role", p, p, <<r>>, shl_overflow(r),
                       user_has_role(r, p))
UserHasRolesAll ==
    \E rs \in Batches, p \in Principals :
        read_predicate("user_has_roles_all", p, p, rs, all_overflows(rs, p),
                       user_has_roles_all(rs, p))
UserHasRolesAny ==
    \E rs \in Batches, p \in Principals :
        read_predicate("user_has_roles_any", p, p, rs, any_overflows(rs, p),
                       user_has_roles_any(rs, p))
HasRole ==
    \E c \in Principals, r \in RoleInputs :
        read_predicate("has_role", c, None, <<r>>, shl_overflow(r), has_role(c, r))
HasRolesAll ==
    \E c \in Principals, rs \in Batches :
        read_predicate("has_roles_all", c, None, rs, all_overflows(rs, c),
                       has_roles_all(c, rs))
HasRolesAny ==
    \E c \in Principals, rs \in Batches :
        read_predicate("has_roles_any", c, None, rs, any_overflows(rs, c),
                       has_roles_any(c, rs))

\* grant_roles called by an admin for a user: every flag is true for a role
\* in range, so every mask over the role inputs gets built
GrantRolesByAdmin ==
    \E c \in Principals, rs \in Batches, p \in Users :
        is_admin(c) /\ grant_roles(c, rs, p)

\* The role masks and their read predicates on their own: an admin's
\* grant_roles builds the masks, without a limit on the number of calls.
NextRoles ==
    \/ GrantRolesByAdmin /\ UNCHANGED <<calls, gvars, lifecycle>>
    \/ UserHasRole /\ UNCHANGED <<calls, gvars, lifecycle>>
    \/ UserHasRolesAll /\ UNCHANGED <<calls, gvars, lifecycle>>
    \/ UserHasRolesAny /\ UNCHANGED <<calls, gvars, lifecycle>>
    \/ HasRole /\ UNCHANGED <<calls, gvars, lifecycle>>
    \/ HasRolesAll /\ UNCHANGED <<calls, gvars, lifecycle>>
    \/ HasRolesAny /\ UNCHANGED <<calls, gvars, lifecycle>>

SpecRoles == InitByUser /\ [][NextRoles]_vars

\* The role batches on their own, without a limit on the number of calls. The
\* canister was installed by a user and its admin has configured the rows of
\* the roles 0 and 31 of the matrix with set_role_admins, in any of the ways
\* these two roles can administer each other and themselves.
ConfiguredRoles == {0, NumRoles - 1}
InitConfigured ==
    /\ \E rows \in [ConfiguredRoles -> SUBSET ConfiguredRoles] :
           admins_of_role = [r \in RoleIdx |->
                                IF r \in ConfiguredRoles THEN rows[r] ELSE {}]
    /\ LET o == CHOOSE u \in Users : TRUE
       IN  /\ owner = o
           /\ pending_owner = None
           /\ admins = <<o>>
           /\ access_roles = <<>>
           /\ last = Call("access_init", o, o, <<>>, "Ok", "", <<>>)
    /\ global_flags_init
    /\ reentrancy_guard_init
    /\ canister_lifecycle_init
    /\ prev = Snapshot
    /\ renounced = FALSE
    /\ calls = 0

GrantRolesAmongUsers ==
    \E c \in Users, rs \in Batches, p \in Users : grant_roles(c, rs, p)
RevokeRolesAmongUsers ==
    \E c \in Users, rs \in Batches, p \in Users : revoke_roles(c, rs, p)

NextBatch ==
    \/ GrantRolesAmongUsers /\ UNCHANGED <<calls, gvars, lifecycle>>
    \/ RevokeRolesAmongUsers /\ UNCHANGED <<calls, gvars, lifecycle>>

SpecBatch == InitConfigured /\ [][NextBatch]_vars

\* The pause flag with its guards and its query, evaluated in a call of any
\* caller; renounce_admin takes callers out of the admin Vec.
WhenNotPaused ==
    \E c \in Principals :
        read_predicate("when_not_paused", c, None, <<>>, FALSE, when_not_paused)
WhenPaused ==
    \E c \in Principals :
        read_predicate("when_paused", c, None, <<>>, FALSE, when_paused)
IsPaused ==
    \E c \in Principals :
        read_predicate("is_paused", c, None, <<>>, FALSE, is_paused)

NextPause ==
    \/ Pause /\ UNCHANGED <<calls, gvars, lifecycle>>
    \/ Resume /\ UNCHANGED <<calls, gvars, lifecycle>>
    \/ RenounceAdmin /\ UNCHANGED <<calls, gvars, lifecycle>>
    \/ WhenNotPaused /\ UNCHANGED <<calls, gvars, lifecycle>>
    \/ WhenPaused /\ UNCHANGED <<calls, gvars, lifecycle>>
    \/ IsPaused /\ UNCHANGED <<calls, gvars, lifecycle>>

SpecPause == Init /\ [][NextPause]_vars

\* --------------------------------------------------------------- lifecycle
\* u16::MAX, the largest value of a version field
U16Max == 65535

BumpFlags == BOOLEAN \X BOOLEAN \X BOOLEAN

\* x + 1 on a u16
add_1(x) == (x + 1) % (U16Max + 1)

UpgradeCall(flags, result, msg) ==
    [op |-> "lifecycle_on_upgrade", caller |-> None, arg |-> None, roles |-> <<>>,
     result |-> result, msg |-> msg, ret |-> <<>>, flags |-> flags]

\* lifecycle_on_upgrade(stable_memory_bump, major_bump, minor_bump), called in
\* the post-upgrade hook. The additions run in the order of the code, the
\* patch version first and unconditionally; an addition that overflows
\* panics in a build with overflow checks, which makes the upgrade fail, and
\* wraps in any other build.
lifecycle_on_upgrade(stable_memory_bump, major_bump, minor_bump) ==
    LET overflow ==
            \/ stable_memory_bump /\ lifecycle.stable_memory_version = U16Max
            \/ lifecycle.version_patch = U16Max
            \/ minor_bump /\ lifecycle.version_minor = U16Max
            \/ major_bump /\ lifecycle.version_major = U16Max
        l1 == IF stable_memory_bump
              THEN [lifecycle EXCEPT !.stable_memory_version = add_1(@)]
              ELSE lifecycle
        l2 == [l1 EXCEPT !.version_patch = add_1(@)]
        l3 == IF minor_bump
              THEN [l2 EXCEPT !.version_minor = add_1(@), !.version_patch = 0]
              ELSE l2
        l4 == IF major_bump
              THEN [l3 EXCEPT !.version_major = add_1(@), !.version_minor = 0,
                              !.version_patch = 0]
              ELSE l3
        flags == <<stable_memory_bump, major_bump, minor_bump>>
    IN  /\ \/ /\ overflow
              /\ last' = UpgradeCall(flags, "Trap", "attempt to add with overflow")
              /\ UNCHANGED lifecycle
           \/ /\ last' = UpgradeCall(flags, "Ok", "")
              /\ lifecycle' = l4
        /\ prev' = Snapshot
        /\ UNCHANGED <<state, gvars, renounced>>

\* One upgrade, for every choice of the three flags.
LifecycleOnUpgrade ==
    \E f \in BumpFlags :
        /\ f[1] => lifecycle.stable_memory_version < MaxVersion
        /\ f[2] => lifecycle.version_major < MaxVersion
        /\ f[3] => lifecycle.version_minor < MaxVersion
        /\ lifecycle_on_upgrade(f[1], f[2], f[3])

\* The version record on its own, over any number of upgrades.
NextLifecycle ==
    \/ LifecycleOnUpgrade /\ UNCHANGED calls

SpecLifecycle == InitByUser /\ [][NextLifecycle]_vars

\* ================================================================== claims
\* Shorthands over the history variables.
NoDup(v) == \A i, j \in DOMAIN v : i # j => v[i] # v[j]
Failed == last.result \in {"Reject", "Trap"}
StateUnchanged == Snapshot = prev
OwnerGated == {"transfer_ownership", "transfer_ownership_immediate",
               "renounce_ownership", "grant_admin", "revoke_admin"}
OwnershipOps == {"transfer_ownership", "transfer_ownership_immediate",
                 "renounce_ownership"}

\* ---- C1
\* The three parts the two-step transfer is made of: what transfer_ownership
\* leaves behind, and what accept_ownership by the candidate does.
TransferStarts ==
    (last.op = "transfer_ownership" /\ last.result = "Ok" /\ last.arg # None) =>
        /\ owner = prev.owner
        /\ owner = last.caller
        /\ pending_owner = last.arg
TransferCompletes ==
    (last.op = "accept_ownership" /\ last.caller = prev.pending_owner) =>
        /\ last.result = "Ok"
        /\ owner = last.caller
        /\ pending_owner = None
        /\ (prev.owner # last.caller => ~is_owner(prev.owner))

\* C1 as claimed: after transfer_ownership(Some(b)) by the owner a, owner() is a
\* and pending_owner() is b, and while a transfer is pending every call other
\* than accept_ownership by the candidate leaves owner and pending owner as
\* they are; accept_ownership by b makes b the owner and clears the pending
\* owner.
C1_PendingUntilAccepted ==
    /\ TransferStarts
    /\ TransferCompletes
    /\ (/\ prev.pending_owner # None
        /\ ~(last.op = "accept_ownership" /\ last.caller = prev.pending_owner))
       => (owner = prev.owner /\ pending_owner = prev.pending_owner)

\* C1 (amended): as above, but the pending transfer also ends when the owner
\* itself calls transfer_ownership, transfer_ownership_immediate or
\* renounce_ownership again; every other call leaves owner and pending owner
\* as they are.
C1_TwoStepTransfer ==
    /\ TransferStarts
    /\ TransferCompletes
    /\ (/\ prev.pending_owner # None
        /\ ~(last.op = "accept_ownership" /\ last.caller = prev.pending_owner)
        /\ ~(last.op \in OwnershipOps /\ last.caller = prev.owner))
       => (owner = prev.owner /\ pending_owner = prev.pending_owner)

\* witness: a candidate other than the owner has accepted the ownership
C1_Witness ==
    /\ last.op = "accept_ownership"
    /\ last.result = "Ok"
    /\ prev.owner \in Principals
    /\ prev.owner # last.caller
    /\ owner = last.caller

\* ---- C2
\* C2: accept_ownership succeeds exactly when the pending owner is the caller;
\* without a pending owner it traps with "No pending owner", with another
\* pending owner it traps on the comparison, and a failed call leaves owner and
\* pending owner unchanged.
C2_AcceptOnlyByPending ==
    last.op = "accept_ownership" =>
        /\ (last.result = "Ok" <=> prev.pending_owner = last.caller)
        /\ (prev.pending_owner = None =>
                last.result = "Trap" /\ last.msg = "No pending owner")
        /\ (prev.pending_owner \notin {None, last.caller} =>
                /\ last.result = "Trap"
                /\ last.msg = "Only pending owner can accept ownership")
        /\ (last.result # "Ok" =>
                owner = prev.owner /\ pending_owner = prev.pending_owner)

\* witness: somebody other than the pending owner tried to accept
C2_Witness ==
    /\ last.op = "accept_ownership"
    /\ last.result = "Trap"
    /\ pending_owner \in Principals
    /\ pending_owner # last.caller

\* ---- C3
\* C3: once renounce_ownership has succeeded there is no owner and no pending
\* owner in any later state, and no later call of an owner-gated operation or
\* of accept_ownership succeeds, whoever makes it.
C3_RenouncementFinal ==
    renounced =>
        /\ owner = None
        /\ pending_owner = None
        /\ (last.op \in OwnerGated \cup {"accept_ownership"} =>
                \/ Failed
                \/ (last.op = "renounce_ownership" /\ prev.owner = last.caller))

\* witness: a call of an owner-gated operation made after the renouncement
C3_Witness ==
    /\ renounced
    /\ prev.owner = None
    /\ last.op = "transfer_ownership_immediate"
    /\ last.result = "Reject"

\* ---- C4
\* C4: transfer_ownership, transfer_ownership_immediate and renounce_ownership
\* called by anybody but the owner are rejected with the guard's message and
\* leave the whole access-control state unchanged.
C4_NonOwnerRejected ==
    (last.op \in OwnershipOps /\ last.caller # prev.owner) =>
        /\ last.result = "Reject"
        /\ last.msg = "Caller is not the owner"
        /\ StateUnchanged

\* witness: the pending owner, not yet owner, tried to transfer the ownership
C4_Witness ==
    /\ last.op = "transfer_ownership_immediate"
    /\ last.result = "Reject"
    /\ last.caller = pending_owner

\* ---- C5
\* C5: grant_admin and revoke_admin called by anybody but the owner, admins
\* included, fail and leave the admin set unchanged; a call by a non-owner
\* changes the admin set only if it is renounce_admin, and then it removes
\* the caller alone.
C5_NoAdminSelfEscalation ==
    /\ (last.op \in {"grant_admin", "revoke_admin"} /\ last.caller # prev.owner) =>
            Failed /\ admins = prev.admins
    /\ (admins # prev.admins /\ last.caller # prev.owner) =>
            /\ last.op = "renounce_admin"
            /\ Elems(admins) = Elems(prev.admins) \ {last.caller}

\* witness: an admin who is not the owner tried to grant admin
C5_Witness ==
    /\ last.op = "grant_admin"
    /\ last.result = "Reject"
    /\ is_admin(last.caller)
    /\ ~is_owner(last.caller)

\* ---- C6
\* C6: right after access_init with owner a, a is the owner and nobody else
\* is, and the admin set is exactly {a}.
C6_InitOwnerAndAdmin ==
    last.op = "access_init" =>
        /\ \A b \in Principals : is_owner(b) <=> b = last.arg
        /\ \A b \in Principals : is_admin(b) <=> b = last.arg
        /\ Elems(admins) = {last.arg}

\* witness: the state right after access_init
C6_Witness ==
    /\ last.op = "access_init"
    /\ calls = 0
    /\ is_owner(last.arg)
    /\ last.arg \in Users

\* ---- C7
\* C7 as claimed: the admin Vec never holds an identity twice, and grant_admin
\* by the owner succeeds for every identity: a no-op for a member, one more
\* entry for a non-member.
C7_GrantAdminAnyIdentity ==
    /\ NoDup(admins)
    /\ (last.op = "grant_admin" /\ last.caller = prev.owner) =>
            /\ last.result = "Ok"
            /\ IF contains(prev.admins, last.arg)
               THEN admins = prev.admins
               ELSE admins = Append(prev.admins, last.arg)

\* C7 (amended): the admin Vec never holds an identity twice; grant_admin by
\* the owner for an identity other than the anonymous one succeeds, as a
\* no-op for a member and with exactly one more entry for a non-member;
\* grant_admin for the anonymous identity traps and leaves the Vec unchanged.
C7_AdminsNoDuplicates ==
    /\ NoDup(admins)
    /\ (last.op = "grant_admin" /\ last.caller = prev.owner /\ last.arg # Anonymous) =>
            /\ last.result = "Ok"
            /\ IF contains(prev.admins, last.arg)
               THEN admins = prev.admins
               ELSE /\ admins = Append(prev.admins, last.arg)
                    /\ Len(admins) = Len(prev.admins) + 1
    /\ (last.op = "grant_admin" /\ last.caller = prev.owner /\ last.arg = Anonymous) =>
            last.result = "Trap" /\ admins = prev.admins

\* witness: the owner granted admin to an identity that was an admin already
C7_Witness ==
    /\ last.op = "grant_admin"
    /\ last.result = "Ok"
    /\ contains(prev.admins, last.arg)
    /\ Len(admins) >= 2

\* ---- C8
\* C8: revoke_admin(x) by the owner succeeds; afterwards x is no admin, every
\* other identity is an admin exactly if it was one before, and nothing
\* changes if x was no member; revoking x once more changes nothing. The
\* owner may revoke itself.
C8_RevokeAdmin ==
    (last.op = "revoke_admin" /\ last.caller = prev.owner) =>
        /\ last.result = "Ok"
        /\ ~is_admin(last.arg)
        /\ \A y \in Principals \ {last.arg} : is_admin(y) <=> contains(prev.admins, y)
        /\ (~contains(prev.admins, last.arg) => admins = prev.admins)
        /\ retain_ne(admins, last.arg) = admins
        /\ owner = prev.owner

\* witness: the owner revoked itself while another admin stayed
C8_Witness ==
    /\ last.op = "revoke_admin"
    /\ last.result = "Ok"
    /\ last.arg = last.caller
    /\ contains(prev.admins, last.arg)
    /\ Len(admins) >= 1

\* ---- C9
\* C9: renounce_admin succeeds exactly when the caller is an admin; it removes
\* the caller and nobody else and leaves owner and pending owner as they are;
\* called by a non-admin it is rejected and changes nothing.
C9_RenounceAdmin ==
    last.op = "renounce_admin" =>
        /\ (last.result = "Ok" <=> contains(prev.admins, last.caller))
        /\ (last.result = "Ok" =>
                /\ Elems(admins) = Elems(prev.admins) \ {last.caller}
                /\ Len(admins) = Len(prev.admins) - 1
                /\ owner = prev.owner
                /\ pending_owner = prev.pending_owner)
        /\ (last.result # "Ok" =>
                last.result = "Reject" /\ StateUnchanged)

\* witness: an admin renounced while another admin stayed
C9_Witness ==
    /\ last.op = "renounce_admin"
    /\ last.result = "Ok"
    /\ Len(admins) >= 1
    /\ ~contains(admins, last.caller)

\* ---- C10
\* the authorisation rule of the claim, on the state the call started from
Authorized(caller, role) ==
    /\ role <= 31
    /\ \/ contains(prev.admins, caller)
       \/ (get_or_0(prev.access_roles, caller) \cap prev.admins_of_role[role]) # {}

\* C10: grant_roles and revoke_roles return one flag per requested role, in
\* the order of the request; the flag is true exactly if the role is at most
\* 31 and the caller is an admin or holds a role that the matrix lists for it;
\* the target's bits of the roles reported true are set (grant) or cleared
\* (revoke) and no other bit changes.
C10_RoleBatchResult ==
    last.op \in {"grant_roles", "revoke_roles"} =>
        LET granted == {last.roles[i] : i \in {j \in DOMAIN last.roles : last.ret[j]}}
            before == get_or_0(prev.access_roles, last.arg)
        IN  /\ last.result = "Ok"
            /\ Len(last.ret) = Len(last.roles)
            /\ \A i \in DOMAIN last.roles :
                   last.ret[i] <=> Authorized(last.caller, last.roles[i])
            /\ get_user_roles(last.arg) =
                   IF last.op = "grant_roles" THEN before \cup granted
                   ELSE before \ granted

\* ---- C11
\* C11: grant_roles and revoke_roles called by the current owner report true
\* for every role index 0..31 (stated for the calls that return), also when
\* the owner is no member of the admin Vec and holds no role.
C11_OwnerBypassesRoleChecks ==
    (/\ last.op \in {"grant_roles", "revoke_roles"}
     /\ last.caller = prev.owner
     /\ last.result = "Ok") =>
        \A i \in DOMAIN last.roles :
            last.roles[i] \in RoleIdx => last.ret[i]

\* ---- C12
\* C12: revoke_roles for a target without an entry in ACCESS_ROLES behaves as
\* for a mask of 0: the call returns, its flags follow the rule of
\* grant_roles, and get_user_roles(target) is 0 afterwards.
C12_RevokeWithoutEntry ==
    (last.op = "revoke_roles" /\ last.arg \notin DOMAIN prev.access_roles) =>
        /\ last.result = "Ok"
        /\ Len(last.ret) = Len(last.roles)
        /\ \A i \in DOMAIN last.roles :
               last.ret[i] <=> Authorized(last.caller, last.roles[i])
        /\ get_user_roles(last.arg) = {}

\* ---- C13
\* C13: for an admin caller and roles within 0..31, grant_roles(R, p) leaves
\* get_user_roles(p) at the previous mask OR bits(R); a following
\* revoke_roles(S, p) (p has an entry since that grant) leaves it at the
\* previous mask AND NOT bits(S); user_has_role(r, p) is true exactly for the
\* bits set in get_user_roles(p).
C13_RoleRoundTrip ==
    /\ (/\ last.op = "grant_roles"
        /\ contains(prev.admins, last.caller)
        /\ Elems(last.roles) \subseteq RoleIdx) =>
            /\ last.result = "Ok"
            /\ get_user_roles(last.arg) =
                   get_or_0(prev.access_roles, last.arg) \cup Elems(last.roles)
    /\ (/\ last.op = "revoke_roles"
        /\ contains(prev.admins, last.caller)
        /\ Elems(last.roles) \subseteq RoleIdx
        /\ last.arg \in DOMAIN prev.access_roles) =>
            /\ last.result = "Ok"
            /\ get_user_roles(last.arg) =
                   get_or_0(prev.access_roles, last.arg) \ Elems(last.roles)
    /\ \A p \in Principals, r \in RoleIdx :
           user_has_role(r, p) <=> r \in get_user_roles(p)

\* witness: an admin revoked one of two roles granted before; the other stays
C13_Witness ==
    /\ last.op = "revoke_roles"
    /\ last.result = "Ok"
    /\ contains(prev.admins, last.caller)
    /\ last.roles = <<0>>
    /\ get_or_0(prev.access_roles, last.arg) = {0, NumRoles - 1}
    /\ get_user_roles(last.arg) = {NumRoles - 1}
    /\ user_has_role(NumRoles - 1, last.arg)
    /\ ~user_has_role(0, last.arg)

\* ---- C14
\* C14: once the matrix lists role q for role r (set_role_admins(r, [q]) by an
\* admin), a non-admin whose mask contains q gets true from
\* grant_roles([r], target) and from revoke_roles([r], target), and the
\* target's bit r is set or cleared; a non-admin holding no role gets false
\* and no mask changes.
C14_RoleAdminDelegation ==
    (/\ last.op \in {"grant_roles", "revoke_roles"}
     /\ ~contains(prev.admins, last.caller)
     /\ Len(last.roles) = 1
     /\ last.roles[1] \in RoleIdx) =>
        LET r == last.roles[1]
            caller_roles == get_or_0(prev.access_roles, last.caller)
            before == get_or_0(prev.access_roles, last.arg)
        IN  /\ (caller_roles \cap prev.admins_of_role[r]) # {} =>
                /\ last.result = "Ok"
                /\ last.ret = <<TRUE>>
                /\ get_user_roles(last.arg) =
                       IF last.op = "grant_roles" THEN before \cup {r}
                       ELSE before \ {r}
            /\ caller_roles = {} =>
                /\ last.result = "Ok"
                /\ last.ret = <<FALSE>>
                /\ \A p \in Principals :
                       get_user_roles(p) = get_or_0(prev.access_roles, p)

\* ---- C15
\* C15: re-granting a role the target holds reports true for an authorised
\* caller and false for an unauthorised one, and the bit stays set; re-revoking
\* a role the target does not hold reports true for an authorised caller and
\* false for an unauthorised one, and the bit stays clear. A batch made of such
\* entries only leaves the target's mask unchanged.
C15_RegrantRerevoke ==
    LET before == get_or_0(prev.access_roles, last.arg)
        held(role) == role \in before
        Redundant(i) == IF last.op = "grant_roles" THEN held(last.roles[i])
                        ELSE ~held(last.roles[i])
    IN  (/\ last.op \in {"grant_roles", "revoke_roles"}
         /\ \E i \in DOMAIN last.roles : Redundant(i)) =>
            /\ last.result = "Ok"
            /\ Len(last.ret) = Len(last.roles)
            /\ \A i \in DOMAIN last.roles : Redundant(i) =>
                   /\ last.ret[i] <=> Authorized(last.caller, last.roles[i])
                   /\ held(last.roles[i]) <=> last.roles[i] \in get_user_roles(last.arg)
            /\ (\A i \in DOMAIN last.roles : Redundant(i)) =>
                   get_user_roles(last.arg) = before

\* ---- C16
\* C16: in a batch of grant_roles or revoke_roles, an entry that is >= 32 or
\* that the caller is not authorised for yields false at its position and does
\* not abort the call: every authorised entry of the batch, before or after
\* it, is reported true and applied to the target.
C16_BatchNotAborted ==
    (/\ last.op \in {"grant_roles", "revoke_roles"}
     /\ \E i \in DOMAIN last.roles : ~Authorized(last.caller, last.roles[i])) =>
        /\ last.result = "Ok"
        /\ Len(last.ret) = Len(last.roles)
        /\ \A i \in DOMAIN last.roles :
               IF Authorized(last.caller, last.roles[i])
               THEN /\ last.ret[i]
                    /\ last.roles[i] \in get_user_roles(last.arg)
                           <=> last.op = "grant_roles"
               ELSE ~last.ret[i]

\* ---- C17
MatrixOps == {"set_role_admins", "revoke_role_admins"}

\* C17: set_role_admins and revoke_role_admins succeed only for callers in the
\* admin Vec; for a role in 0..31 and admin roles within 0..31 they leave
\* row `role` of the matrix at old OR bits(admin_roles), respectively old AND
\* NOT bits(admin_roles), and every other row and every role mask unchanged. A
\* call by a non-admin, whatever roles it holds, fails and changes no row.
C17_MatrixConfiguration ==
    last.op \in MatrixOps =>
        /\ last.result = "Ok" => contains(prev.admins, last.caller)
        /\ ~contains(prev.admins, last.caller) =>
               /\ Failed
               /\ admins_of_role = prev.admins_of_role
        /\ (/\ contains(prev.admins, last.caller)
            /\ last.arg \in RoleIdx
            /\ Elems(last.roles) \subseteq RoleIdx) =>
               /\ last.result = "Ok"
               /\ admins_of_role[last.arg] =
                      IF last.op = "set_role_admins"
                      THEN prev.admins_of_role[last.arg] \cup Elems(last.roles)
                      ELSE prev.admins_of_role[last.arg] \ Elems(last.roles)
               /\ \A r \in RoleIdx \ {last.arg} :
                      admins_of_role[r] = prev.admins_of_role[r]
               /\ access_roles = prev.access_roles

\* witness: an admin took one of two role admins out of a row of the matrix
C17_Witness ==
    /\ last.op = "revoke_role_admins"
    /\ last.result = "Ok"
    /\ last.arg = NumRoles - 1
    /\ last.roles = <<0>>
    /\ prev.admins_of_role[NumRoles - 1] = {0, NumRoles - 1}
    /\ admins_of_role[NumRoles - 1] = {NumRoles - 1}

\* ---- C18
\* C18: set_role_admins and revoke_role_admins called by an admin with a role
\* >= 32 complete without failing and leave all 32 rows of the matrix
\* unchanged.
C18_OutOfRangeRoleIgnored ==
    (/\ last.op \in MatrixOps
     /\ contains(prev.admins, last.caller)
     /\ last.arg >= NumRoles) =>
        /\ last.result = "Ok"
        /\ \A r \in RoleIdx : admins_of_role[r] = prev.admins_of_role[r]

\* ---- C19
\* C19: in set_role_admins and revoke_role_admins called by an admin for a
\* role in 0..31, an entry of admin_roles that is >= 32 is ignored: the call
\* does not fail, and row `role` is changed by the in-range entries alone (the
\* entry does not act as its index modulo 32).
C19_OutOfRangeAdminRoleIgnored ==
    (/\ last.op \in MatrixOps
     /\ contains(prev.admins, last.caller)
     /\ last.arg \in RoleIdx
     /\ \E i \in DOMAIN last.roles : last.roles[i] >= NumRoles) =>
        LET in_range == Elems(last.roles) \cap RoleIdx
        IN  /\ last.result = "Ok"
            /\ admins_of_role[last.arg] =
                   IF last.op = "set_role_admins"
                   THEN prev.admins_of_role[last.arg] \cup in_range
                   ELSE prev.admins_of_role[last.arg] \ in_range

\* ---- C20
\* C20: is_paused() is false after initialisation; pause() by an admin makes
\* it true and resume() by an admin makes it false, whatever it was before
\* (both are idempotent) and with nothing else changed; pause() and resume()
\* by a non-admin fail and leave the flag, and the rest of the state,
\* unchanged.
C20_PauseGate ==
    /\ last.op = "access_init" => ~is_paused
    /\ last.op \in {"pause", "resume"} =>
           IF contains(prev.admins, last.caller)
           THEN /\ last.result = "Ok"
                /\ is_paused <=> last.op = "pause"
                /\ Snapshot = [prev EXCEPT !.paused = (last.op = "pause")]
                /\ (prev.paused <=> last.op = "pause") => StateUnchanged
           ELSE /\ Failed
                /\ is_paused = prev.paused
                /\ StateUnchanged

\* witness: an admin resumed a paused canister
C20_Witness ==
    /\ last.op = "resume"
    /\ last.result = "Ok"
    /\ prev.paused
    /\ ~is_paused

\* ---- C21
\* C21: the pause flag changes only in a successful pause() or resume() of a
\* caller that is an admin at that moment: no operation on the ownership, the
\* admin Vec, the roles, the matrix or the reentrancy guard changes it, and a
\* paused canister leaves the paused state through resume() by an admin
\* alone. Once the admin Vec is empty and the ownership renounced, both stay
\* so and neither guard lets any caller through, so a pause is permanent.
C21_PausedUntilResumed ==
    /\ paused # prev.paused =>
           /\ last.op \in {"pause", "resume"}
           /\ last.result = "Ok"
           /\ contains(prev.admins, last.caller)
    /\ (prev.paused /\ ~paused) => last.op = "resume"
    /\ (prev.admins = <<>> /\ prev.owner = None) =>
           (admins = <<>> /\ owner = None)
    /\ (admins = <<>> /\ owner = None) =>
           \A c \in Principals : only_admin(c) # "Ok" /\ only_owner(c) # "Ok"

\* witness: the last admin is gone and the ownership was renounced while the
\* canister was paused
C21_Witness ==
    /\ prev.paused
    /\ paused
    /\ last.op = "renounce_ownership"
    /\ last.result = "Ok"
    /\ admins = <<>>
    /\ owner = None

\* ---- C22
GuardOps == {"guarded_call", "guarded_callback"}
ReentrantCall == "ReentrancyGuard: reentrant call"

\* C22: acquiring the guard for a caller whose ticket is outstanding fails
\* with the reentrancy trap, whether the first guarded function is suspended
\* or is the one making the call, and leaves the ticket and the suspended
\* function in place; a ticket disappears only in the message in which its
\* guarded function exits; no caller ever has two guarded functions in
\* progress.
C22_ReentrantAcquireFails ==
    /\ (last.op = "guarded_call" /\ contains_key(prev.reentrancy_guard_map, last.caller)) =>
           /\ last.result = "Trap"
           /\ last.msg = ReentrantCall
           /\ reentrancy_guard_map = prev.reentrancy_guard_map
           /\ scopes = prev.scopes
    /\ (last.op \in GuardOps /\ last.path = "reenter") =>
           last.result = "Trap" /\ last.msg = ReentrantCall
    /\ \A c \in Principals :
           (contains_key(prev.reentrancy_guard_map, c)
                /\ ~contains_key(reentrancy_guard_map, c)) =>
               /\ last.op = "guarded_callback"
               /\ last.caller = c
               /\ last.path # "await"
    /\ \A c \in Principals : Len(scopes[c]) <= 1

\* witness: a caller with a suspended guarded function called the other
\* guarded function and was turned away; the ticket is still there
C22_Witness ==
    /\ last.op = "guarded_call"
    /\ last.result = "Trap"
    /\ last.msg = ReentrantCall
    /\ prev.scopes[last.caller] # <<>>
    /\ scopes[last.caller] = prev.scopes[last.caller]
    /\ contains_key(reentrancy_guard_map, last.caller)

\* ---- C23
\* the last step ended a guarded function of its caller that had acquired
\* the ticket: a call that got past the test and did not suspend, or a
\* callback that did not suspend again
ScopeExited ==
    \/ /\ last.op = "guarded_call"
       /\ ~contains_key(prev.reentrancy_guard_map, last.caller)
       /\ last.path # "await"
    \/ /\ last.op = "guarded_callback"
       /\ last.path # "await"

\* C23: when a guarded function that acquired the ticket of its caller exits,
\* by returning, by an error return or by a trap, before or after a
\* suspension, the caller's ticket is gone; a caller with no guarded function
\* in progress never has a ticket, so nobody stays locked out.
C23_GuaranteedRelease ==
    /\ ScopeExited =>
           /\ ~contains_key(reentrancy_guard_map, last.caller)
           /\ scopes[last.caller] = <<>>
    /\ \A c \in Principals :
           scopes[c] = <<>> => ~contains_key(reentrancy_guard_map, c)

\* witness: a suspended guarded function trapped in its callback and the
\* ticket it held is gone
C23_Witness ==
    /\ last.op = "guarded_callback"
    /\ last.path = "trap"
    /\ last.result = "Trap"
    /\ contains_key(prev.reentrancy_guard_map, last.caller)
    /\ ~contains_key(reentrancy_guard_map, last.caller)

\* ---- C24
\* C24: while a guarded function of a caller is suspended on a remote call,
\* every call by that caller to a guarded function, the suspended one or
\* another one, traps on the guard and changes nothing, whatever other
\* messages were processed in between.
C24_GlobalPerCaller ==
    /\ (last.op = "guarded_call" /\ prev.scopes[last.caller] # <<>>) =>
           /\ last.result = "Trap"
           /\ last.msg = ReentrantCall
           /\ reentrancy_guard_map = prev.reentrancy_guard_map
           /\ scopes = prev.scopes
    /\ \A c \in Principals :
           scopes[c] # <<>> =>
               \A f \in GuardedFuncs : reentrant(reentrancy_guard_map, c, f)

\* witness: the caller's suspended function is one guarded function, the call
\* that was refused went to the other one, and another caller's function is
\* suspended too
C24_Witness ==
    /\ last.op = "guarded_call"
    /\ prev.scopes[last.caller] # <<>>
    /\ last.func # Head(prev.scopes[last.caller])
    /\ last.result = "Trap"
    /\ last.msg = ReentrantCall
    /\ \E d \in Principals \ {last.caller} : scopes[d] # <<>>

\* ---- C25
\* C25: the guard is scoped by caller. A guarded call or callback of caller c
\* leaves the ticket and the suspended function of every other caller as
\* they were; whether c passes the test depends on c's own ticket only, so a
\* caller without a ticket is never refused because of another caller's;
\* two callers can be suspended in the same guarded function at once.
C25_CallerScoped ==
    /\ last.op \in GuardOps =>
           \A d \in Principals \ {last.caller} :
               /\ contains_key(reentrancy_guard_map, d)
                      = contains_key(prev.reentrancy_guard_map, d)
               /\ scopes[d] = prev.scopes[d]
    /\ (last.op = "guarded_call"
            /\ ~contains_key(prev.reentrancy_guard_map, last.caller)
            /\ last.path \in {"return", "await"}) =>
           last.result \in {"Ok", "Await"}
    /\ \A c \in Principals, f \in GuardedFuncs :
           reentrant(reentrancy_guard_map, c, f)
               = contains_key(reentrancy_guard_map, c)

\* witness: a caller has just acquired the guard in a function in which
\* another caller is suspended; both hold tickets
C25_Witness ==
    /\ last.op = "guarded_call"
    /\ last.result = "Await"
    /\ \E d \in Principals \ {last.caller} :
           /\ prev.scopes[d] = <<last.func>>
           /\ scopes[d] = <<last.func>>
           /\ contains_key(reentrancy_guard_map, d)
    /\ contains_key(reentrancy_guard_map, last.caller)
    /\ scopes[last.caller] = <<last.func>>

\* ---- C26
\* the callers with a guarded function in progress
InProgress == {c \in Principals : scopes[c] # <<>>}

\* C26: between messages the tickets in the map are exactly the callers with
\* a guarded function in progress; a caller that acquired the guard and
\* released it has no ticket, and a caller without a ticket passes the test
\* of the next acquisition, which records it again.
C26_TicketsAreScopes ==
    /\ DOMAIN reentrancy_guard_map = InProgress
    /\ (last.op \in GuardOps /\ last.result = "Ok") =>
           /\ ~contains_key(reentrancy_guard_map, last.caller)
           /\ \A f \in GuardedFuncs : ~reentrant(reentrancy_guard_map, last.caller, f)
    /\ (last.op = "guarded_call"
            /\ last.caller \notin DOMAIN prev.reentrancy_guard_map
            /\ last.path = "return") => last.result = "Ok"
    /\ (last.op = "guarded_call"
            /\ last.caller \notin DOMAIN prev.reentrancy_guard_map
            /\ last.path = "await") =>
           /\ last.result = "Await"
           /\ DOMAIN reentrancy_guard_map
                  = DOMAIN prev.reentrancy_guard_map \cup {last.caller}

\* witness: a suspended guarded function returned and released its ticket
\* while another caller's function is still in progress
C26_Witness ==
    /\ last.op = "guarded_callback"
    /\ last.result = "Ok"
    /\ last.path = "return"
    /\ contains_key(prev.reentrancy_guard_map, last.caller)
    /\ ~contains_key(reentrancy_guard_map, last.caller)
    /\ InProgress # {}
    /\ DOMAIN reentrancy_guard_map = InProgress

\* ---- C27
\* C27: transfer_ownership_immediate called by the owner with a new owner
\* other than the anonymous principal returns with owner set to the argument
\* and pending_owner cleared, in that one call; with no pending owner left,
\* accept_ownership traps for every caller, the former candidate included,
\* and changes nothing.
C27_ImmediateTransfer ==
    /\ (last.op = "transfer_ownership_immediate"
            /\ prev.owner = last.caller
            /\ last.arg # Anonymous) =>
           /\ last.result = "Ok"
           /\ owner = last.arg
           /\ pending_owner = None
           /\ admins = prev.admins
    /\ (last.op = "transfer_ownership_immediate" /\ last.result = "Ok") =>
           \A c \in Principals : pending_owner # c
    /\ (last.op = "accept_ownership" /\ prev.pending_owner = None) =>
           /\ last.result = "Trap"
           /\ last.msg = "No pending owner"
           /\ StateUnchanged

\* witness: while a candidate other than the owner was pending, the owner
\* set the owner in one call to someone else than the candidate; nobody is
\* pending now
C27_Witness ==
    /\ last.op = "transfer_ownership_immediate"
    /\ last.result = "Ok"
    /\ prev.pending_owner \in Users
    /\ prev.pending_owner # prev.owner
    /\ last.arg # prev.pending_owner
    /\ owner = last.arg
    /\ pending_owner = None

\* ---- C28
AnonymousRefused == "Cannot transfer ownership to the anonymous principal"

\* C28: transfer_ownership and transfer_ownership_immediate called by the
\* owner with the anonymous principal as new owner trap; owner and
\* pending_owner, and the rest of the state, are as before the call, so a
\* candidate that was pending is still pending.
C28_AnonymousTargetRefused ==
    (/\ last.op \in {"transfer_ownership", "transfer_ownership_immediate"}
     /\ prev.owner = last.caller
     /\ last.arg = Anonymous) =>
        /\ last.result = "Trap"
        /\ last.msg = AnonymousRefused
        /\ owner = prev.owner
        /\ pending_owner = prev.pending_owner
        /\ StateUnchanged

\* witness: with a candidate pending, the owner tried the immediate transfer
\* to the anonymous principal; the call trapped and the candidate is pending
C28_Witness ==
    /\ last.op = "transfer_ownership_immediate"
    /\ last.arg = Anonymous
    /\ prev.owner = last.caller
    /\ last.result = "Trap"
    /\ prev.pending_owner \in Users
    /\ prev.pending_owner # prev.owner
    /\ pending_owner = prev.pending_owner
    /\ owner = prev.owner

\* ---- C29
AdminGated == {"pause", "resume", "set_role_admins", "revoke_role_admins"}

\* C29: being the owner gives no admin rights. For an owner that is not in
\* the admin Vec only_owner passes and only_admin fails; pause, resume,
\* set_role_admins and revoke_role_admins called by such an owner are
\* rejected with "Caller is not an admin" and change nothing; once the owner
\* has granted itself admin (which grant_admin refuses to the anonymous
\* principal alone), only_admin passes and these calls are no longer rejected.
C29_OwnerIsNotAdmin ==
    /\ \A c \in Principals :
           (owner = c /\ ~contains(admins, c)) =>
               only_owner(c) = "Ok" /\ only_admin(c) = "Caller is not an admin"
    /\ (last.op \in AdminGated
            /\ prev.owner = last.caller
            /\ ~contains(prev.admins, last.caller)) =>
           /\ last.result = "Reject"
           /\ last.msg = "Caller is not an admin"
           /\ StateUnchanged
    /\ (last.op = "grant_admin"
            /\ prev.owner = last.caller
            /\ last.arg = last.caller
            /\ last.arg # Anonymous) =>
           /\ last.result = "Ok"
           /\ contains(admins, last.caller)
           /\ only_admin(last.caller) = "Ok"
    /\ (last.op \in AdminGated /\ contains(prev.admins, last.caller)) =>
           last.result # "Reject"

\* witness: the owner, removed from the admin Vec, called pause and was
\* rejected; the canister is not paused
C29_Witness ==
    /\ last.op = "pause"
    /\ prev.owner = last.caller
    /\ owner = last.caller
    /\ ~contains(admins, last.caller)
    /\ last.result = "Reject"
    /\ ~paused
    /\ only_owner(last.caller) = "Ok"

\* ---- C30
ReadPredicates == {"user_has_role", "user_has_roles_all", "user_has_roles_any",
                   "has_role", "has_roles_all", "has_roles_any"}

\* every listed role is a bit of p's mask / some listed role is
AllHeld(roles, p) == \A i \in DOMAIN roles : roles[i] \in get_user_roles(p)
AnyHeld(roles, p) == \E i \in DOMAIN roles : roles[i] \in get_user_roles(p)

\* C30: user_has_roles_all returns true exactly when every listed role's bit
\* is set in the principal's mask (true for the empty list),
\* user_has_roles_any returns true exactly when at least one is (false for
\* the empty list); has_role, has_roles_all and has_roles_any give Ok exactly
\* when that holds for the caller; no read predicate changes the state.
C30_RolePredicates ==
    /\ last.op = "user_has_roles_all" =>
           last.result = "Ok" /\ last.ret = <<AllHeld(last.roles, last.arg)>>
    /\ last.op = "user_has_roles_any" =>
           last.result = "Ok" /\ last.ret = <<AnyHeld(last.roles, last.arg)>>
    /\ last.op = "has_role" =>
           /\ last.result = "Ok"
           /\ last.ret = <<IF AllHeld(last.roles, last.caller)
                           THEN "Ok" ELSE "Unauthorized">>
    /\ last.op = "has_roles_all" =>
           /\ last.result = "Ok"
           /\ last.ret = <<IF AllHeld(last.roles, last.caller)
                           THEN "Ok" ELSE "Unauthorized">>
    /\ last.op = "has_roles_any" =>
           /\ last.result = "Ok"
           /\ last.ret = <<IF AnyHeld(last.roles, last.caller)
                           THEN "Ok" ELSE "Unauthorized">>
    /\ last.op \in ReadPredicates => StateUnchanged

\* ---- C31
\* the version after an upgrade as the claim gives it: the major bump first,
\* else the minor bump, else the patch bump
version_rule(l, f) ==
    LET m == IF f[1] THEN [l EXCEPT !.stable_memory_version = add_1(@)] ELSE l
    IN  IF f[2]
        THEN [m EXCEPT !.version_major = add_1(@), !.version_minor = 0,
                       !.version_patch = 0]
        ELSE IF f[3]
             THEN [m EXCEPT !.version_minor = add_1(@), !.version_patch = 0]
             ELSE [m EXCEPT !.version_patch = add_1(@)]

\* one of the additions the rule itself makes exceeds u16
rule_overflows(l, f) ==
    \/ f[1] /\ l.stable_memory_version = U16Max
    \/ f[2] /\ l.version_major = U16Max
    \/ ~f[2] /\ f[3] /\ l.version_minor = U16Max
    \/ ~f[2] /\ ~f[3] /\ l.version_patch = U16Max

UpgradeFollowsRule ==
    last'.op = "lifecycle_on_upgrade" =>
        /\ last'.result = "Ok" => lifecycle' = version_rule(lifecycle, last'.flags)
        /\ last'.result # "Ok" => rule_overflows(lifecycle, last'.flags)

\* C31: every upgrade takes the version to the one the rule gives (major
\* bump: major + 1 and minor = patch = 0, also with a minor bump; else minor
\* bump: minor + 1 and patch = 0; else patch + 1; stable memory version + 1
\* exactly with stable_memory_bump), and it fails only where an addition of
\* the rule itself leaves u16; so from 0.0.0 the version is the fold of the
\* rule over the upgrades made.
C31_VersionFold == [][UpgradeFollowsRule]_vars

\* ---- C32
PauseReads == {"when_not_paused", "when_paused", "is_paused"}

\* C32: when_not_paused gives Ok exactly when the pause flag is false and
\* when_paused exactly when it is true, so in every state one of the two
\* passes and the other fails; both agree with is_paused, and evaluating a
\* guard or the query changes nothing.
C32_PauseGuards ==
    /\ (when_not_paused = "Ok") = ~paused
    /\ (when_paused = "Ok") = paused
    /\ (when_not_paused = "Ok") # (when_paused = "Ok")
    /\ (when_paused = "Ok") = is_paused
    /\ last.op = "when_not_paused" =>
           last.ret = <<IF prev.paused THEN "Contract is paused" ELSE "Ok">>
    /\ last.op = "when_paused" =>
           last.ret = <<IF prev.paused THEN "Ok" ELSE "Contract is not paused">>
    /\ last.op = "is_paused" => last.ret = <<prev.paused>>
    /\ last.op \in PauseReads => last.result = "Ok" /\ StateUnchanged

\* witness: with the canister paused, when_paused was evaluated and passed,
\* and when_not_paused fails in the same state
C32_Witness ==
    /\ last.op = "when_paused"
    /\ last.ret = <<"Ok">>
    /\ paused
    /\ when_not_paused = "Contract is paused"

\* ---- C33
CoreOps == {"transfer_ownership", "transfer_ownership_immediate",
            "accept_ownership", "renounce_ownership", "grant_admin",
            "revoke_admin", "renounce_admin", "grant_roles", "revoke_roles",
            "set_role_admins", "revoke_role_admins", "pause", "resume"}

\* the roles of the last batch that were reported true
ReportedTrue == {last.roles[i] : i \in {j \in DOMAIN last.roles : last.ret[j]}}
\* the bits of the admin roles given to the last matrix call
AdminBits == {last.roles[i] % NumRoles : i \in DOMAIN last.roles}

\* the state a completed call leaves, computed from the state right before
\* the call and the call's arguments alone
Sequential ==
    CASE last.op = "transfer_ownership" ->
            [prev EXCEPT !.pending_owner = last.arg]
      [] last.op = "transfer_ownership_immediate" ->
            [prev EXCEPT !.owner = last.arg, !.pending_owner = None]
      [] last.op = "accept_ownership" ->
            [prev EXCEPT !.owner = prev.pending_owner, !.pending_owner = None]
      [] last.op = "renounce_ownership" ->
            [prev EXCEPT !.owner = None, !.pending_owner = None]
      [] last.op = "grant_admin" ->
            [prev EXCEPT !.admins = IF contains(@, last.arg) THEN @
                                    ELSE Append(@, last.arg)]
      [] last.op = "revoke_admin" ->
            [prev EXCEPT !.admins = retain_ne(@, last.arg)]
      [] last.op = "renounce_admin" ->
            [prev EXCEPT !.admins = retain_ne(@, last.caller)]
      [] last.op = "grant_roles" ->
            [prev EXCEPT !.access_roles =
                insert(@, last.arg, get_or_0(@, last.arg) \cup ReportedTrue)]
      [] last.op = "revoke_roles" ->
            [prev EXCEPT !.access_roles =
                insert(@, last.arg, get_or_0(@, last.arg) \ ReportedTrue)]
      [] last.op = "set_role_admins" ->
            [prev EXCEPT !.admins_of_role =
                IF last.arg \in RoleIdx
                THEN [@ EXCEPT ![last.arg] = @ \cup AdminBits] ELSE @]
      [] last.op = "revoke_role_admins" ->
            [prev EXCEPT !.admins_of_role =
                IF last.arg \in RoleIdx
                THEN [@ EXCEPT ![last.arg] = @ \ AdminBits] ELSE @]
      [] last.op = "pause" -> [prev EXCEPT !.paused = TRUE]
      [] last.op = "resume" -> [prev EXCEPT !.paused = FALSE]

\* C33: every mutating operation is one step from the state right before it:
\* a call that completes leaves exactly the state obtained by applying it to
\* that state, so the update of no earlier call is lost, a call that fails
\* leaves the state as it was, and no such call starts or ends a suspended
\* function; this in every interleaving, also while guarded functions of
\* other calls are suspended. The state is therefore the result of the
\* completed calls in the order in which they ran.
C33_AtomicSteps ==
    last.op \in CoreOps =>
        /\ last.result = "Ok" => Snapshot = Sequential
        /\ last.result # "Ok" => StateUnchanged
        /\ scopes = prev.scopes
        /\ reentrancy_guard_map = prev.reentrancy_guard_map

\* witness: while a guarded function is suspended, a grant_roles added a bit
\* to a mask that an earlier call had already written
C33_Witness ==
    /\ last.op = "grant_roles"
    /\ last.result = "Ok"
    /\ get_or_0(prev.access_roles, last.arg) # {}
    /\ get_user_roles(last.arg) # get_or_0(prev.access_roles, last.arg)
    /\ get_or_0(prev.access_roles, last.arg) \subseteq get_user_roles(last.arg)
    /\ \E c \in Principals : scopes[c] # <<>>

\* ---- C34
\* the last call completed and is one of those that end a transfer
ClearsPending ==
    /\ last.result = "Ok"
    /\ \/ last.op \in {"accept_ownership", "transfer_ownership_immediate",
                       "renounce_ownership"}
       \/ last.op = "transfer_ownership" /\ last.arg = None

\* C34: in every reachable state there is a pending owner only if there is
\* an owner, and pending_owner is None right after every successful
\* accept_ownership, transfer_ownership(None), transfer_ownership_immediate
\* and renounce_ownership.
C34_PendingNeedsOwner ==
    /\ pending_owner # None => owner # None
    /\ ClearsPending => pending_owner = None

\* witness: the owner renounced while a candidate was pending; there is
\* neither an owner nor a pending owner now
C34_Witness ==
    /\ last.op = "renounce_ownership"
    /\ last.result = "Ok"
    /\ prev.pending_owner \in Users
    /\ prev.pending_owner # prev.owner
    /\ owner = None
    /\ pending_owner = None

\* ---- C35
\* the caller of the last call was authorised for its i-th entry by the
\* state the call started from
AuthorizedAtStart(i) ==
    /\ last.roles[i] <= 31
    /\ \/ contains(prev.admins, last.caller)
       \/ (prev.admins_of_role[last.roles[i]]
               \cap get_or_0(prev.access_roles, last.caller)) # {}

\* C35: in a grant_roles or revoke_roles call that returns, the flag of every
\* entry is the authorisation of the caller by its role mask as it was when
\* the call started; for a caller that is its own target, what an earlier
\* entry of the batch granted or revoked does not change the flag of a later
\* entry, and counts from the next call on, which starts from the new mask.
C35_BatchUsesInitialMask ==
    (last.op \in {"grant_roles", "revoke_roles"} /\ last.result = "Ok") =>
        /\ Len(last.ret) = Len(last.roles)
        /\ \A i \in DOMAIN last.roles : last.ret[i] = AuthorizedAtStart(i)

\* witness: a non-admin granted itself a role with its first entry; the
\* second entry, a role only the holders of the first may grant, was
\* refused, although the caller holds the first role once the call is over
C35_Witness ==
    /\ last.op = "grant_roles"
    /\ last.caller = last.arg
    /\ ~contains(admins, last.caller)
    /\ Len(last.roles) = 2
    /\ last.ret = <<TRUE, FALSE>>
    /\ last.roles[1] \notin get_or_0(prev.access_roles, last.caller)
    /\ last.roles[1] \in get_user_roles(last.caller)
    /\ last.roles[2] \in ConfiguredRoles
    /\ admins_of_role[last.roles[2]] = {last.roles[1]}

\* ---- C36
RoleBatchOps == {"grant_roles", "revoke_roles"}

\* the bits in which the mask of p differs from the one before the last call
ChangedBits(p) ==
    LET old == get_or_0(prev.access_roles, p)
        new == get_user_roles(p)
    IN  (old \ new) \cup (new \ old)

\* C36: grant_roles and revoke_roles change at most the mask of their
\* target, and in it only bits of entries reported true (set by grant,
\* cleared by revoke); the masks of all other identities, the matrix, the
\* admin Vec, the owner with the pending owner and the pause flag are as
\* before. A call whose entries are all reported false, and a call that
\* fails, leave the mask of every identity as it was.
C36_RoleBatchFrame ==
    last.op \in RoleBatchOps =>
        /\ \A p \in Principals \ {last.arg} : ChangedBits(p) = {}
        /\ admins_of_role = prev.admins_of_role
        /\ admins = prev.admins
        /\ owner = prev.owner
        /\ pending_owner = prev.pending_owner
        /\ paused = prev.paused
        /\ last.result = "Ok" =>
               /\ ChangedBits(last.arg) \subseteq ReportedTrue
               /\ last.op = "grant_roles" =>
                      get_user_roles(last.arg) \ get_or_0(prev.access_roles, last.arg)
                          = ReportedTrue \ get_or_0(prev.access_roles, last.arg)
               /\ last.op = "revoke_roles" =>
                      get_or_0(prev.access_roles, last.arg) \ get_user_roles(last.arg)
                          = ReportedTrue \cap get_or_0(prev.access_roles, last.arg)
               /\ (\A i \in DOMAIN last.ret : ~last.ret[i]) =>
                      \A p \in Principals : ChangedBits(p) = {}
        /\ last.result # "Ok" => StateUnchanged

\* witness: a batch with one entry granted and one refused changed exactly
\* the granted bit of the target while another identity holds a role
C36_Witness ==
    /\ last.op = "grant_roles"
    /\ last.result = "Ok"
    /\ last.ret = <<TRUE, FALSE>>
    /\ ChangedBits(last.arg) = {last.roles[1]}
    /\ \E p \in Principals \ {last.arg} : get_user_roles(p) # {}

\* ---- C37
OwnershipMoves == {"transfer_ownership", "accept_ownership",
                   "transfer_ownership_immediate", "renounce_ownership"}

\* C37: transfer_ownership, accept_ownership, transfer_ownership_immediate
\* and renounce_ownership leave the admin Vec, the matrix, every role mask
\* and the pause flag as they were; the owner changes in no other call, so
\* when the ownership has moved the admins are those from before: the former
\* owner still is one if it was, the new owner is one only if it was.
C37_OwnershipFrame ==
    /\ last.op \in OwnershipMoves =>
           /\ admins = prev.admins
           /\ admins_of_role = prev.admins_of_role
           /\ access_roles = prev.access_roles
           /\ paused = prev.paused
    /\ owner # prev.owner =>
           /\ last.op \in OwnershipMoves
           /\ \A p \in Principals : is_admin(p) = contains(prev.admins, p)

\* witness: while the canister is paused the ownership went from an admin
\* to a principal that is not one; the former owner is still an admin and
\* the new owner is not
C37_Witness ==
    /\ last.op = "accept_ownership"
    /\ last.result = "Ok"
    /\ owner = last.caller
    /\ prev.owner \in Users
    /\ prev.owner # owner
    /\ is_admin(prev.owner)
    /\ ~is_admin(owner)
    /\ paused

\* ---- C38
\* C38: once there is no owner there never is one again, and from then on
\* every call leaves an admin Vec whose members were members before the
\* call; once the Vec is empty as well it stays empty, and pause, resume,
\* set_role_admins and revoke_role_admins are rejected for every caller
\* and change nothing.
C38_AdminsOnlyShrink ==
    /\ renounced => owner = None
    /\ prev.owner = None =>
           /\ owner = None
           /\ Elems(admins) \subseteq Elems(prev.admins)
           /\ Len(admins) <= Len(prev.admins)
    /\ (prev.owner = None /\ prev.admins = <<>>) =>
           /\ admins = <<>>
           /\ \A c \in Principals : only_admin(c) # "Ok"
           /\ last.op \in AdminGated =>
                  last.result = "Reject" /\ StateUnchanged

\* witness: ownership was renounced, the last admin has renounced too, and a
\* call that configures the matrix was rejected
C38_Witness ==
    /\ renounced
    /\ prev.owner = None
    /\ prev.admins = <<>>
    /\ last.op = "set_role_admins"
    /\ last.result = "Reject"

\* ---- C39
\* the anonymous principal is neither an admin nor the owner nor the pending
\* owner in the state s
AnonymousAbsent(s) ==
    /\ ~contains(s.admins, Anonymous)
    /\ s.owner # Anonymous
    /\ s.pending_owner # Anonymous

\* C39: grant_admin(anonymous) called by the owner traps and leaves the admin
\* Vec, and the rest of the state, as it was; no call brings the anonymous
\* principal into the admin Vec, the owner or the pending owner when it was
\* in none of them before; so for a canister installed by another caller
\* than the anonymous principal it is in none of them in any reachable state.
C39_AnonymousKeptOut ==
    /\ (last.op = "grant_admin"
            /\ prev.owner = last.caller
            /\ last.arg = Anonymous) =>
           /\ last.result = "Trap"
           /\ last.msg = "Cannot grant admin to the anonymous principal"
           /\ admins = prev.admins
           /\ StateUnchanged
    /\ AnonymousAbsent(prev) => AnonymousAbsent(Snapshot)
    /\ AnonymousAbsent(Snapshot)

\* witness: the owner tried to make the anonymous principal an admin; the
\* call trapped and the admin Vec is as before
C39_Witness ==
    /\ last.op = "grant_admin"
    /\ last.arg = Anonymous
    /\ prev.owner = last.caller
    /\ last.result = "Trap"
    /\ admins = prev.admins
    /\ ~is_admin(Anonymous)

\* ---- C40
\* the last call was a read predicate given one role, and that role is not
\* one of the 32 bits of a mask
OutOfRangeRead(op) ==
    /\ last.op = op
    /\ Len(last.roles) = 1
    /\ last.roles[1] >= NumRoles

\* C40: for a role index >= 32 and every identity, user_has_role(role, p)
\* and user_has_roles_any([role], p) return false and has_role(role) returns
\* Unauthorized, without failing; in particular the answer is not the state
\* of the role with the index role mod 32.
C40_OutOfRangeNotHeld ==
    /\ OutOfRangeRead("user_has_role") =>
           last.result = "Ok" /\ last.ret = <<FALSE>>
    /\ OutOfRangeRead("has_role") =>
           last.result = "Ok" /\ last.ret = <<"Unauthorized">>
    /\ OutOfRangeRead("user_has_roles_any") =>
           last.result = "Ok" /\ last.ret = <<FALSE>>

====
